---- MODULE Spec2Model ----
(***************************************************************************)
(* Model of core/command.py: the "sp" server command, its sub-command      *)
(* registry and the Sphinx documentation lifecycle (create / generate /    *)
(* build) driven by docs_handler.                                          *)
(*                                                                         *)
(* plugins.command.SubCommandManager (the registry and its dispatch) and   *)
(* autodoc.SphinxProject (the project capability) are imported by          *)
(* command.py but are not part of the sources at hand; they are modelled   *)
(* from the written specification and marked as such in the model map.     *)
(***************************************************************************)
EXTENDS Integers, Sequences, FiniteSets, TLC

VARIABLES
    registry,   \* the sub-commands of "sp", in insertion order
    registered, \* history: the <<name, handler>> pairs registered and not removed
    pc,         \* index of the next registration statement of the module
    regOps,     \* register / unregister calls made at runtime so far
    extMods,    \* external modifications of the disk so far
    manager,    \* names of the loaded plugins, in load order
    disk,       \* state of every documentation project directory
    customDir,  \* entries of CUSTOM_PACKAGES_PATH
    pluginDir,  \* entries of PLUGIN_PATH
    last,       \* the latest operation and everything it did
    prev        \* summary of the operation before it

vars ==
    <<registry, registered, pc, regOps, extMods, manager, disk, customDir,
      pluginDir, last, prev>>

(***************************************************************************)
(* Bounds of the model.                                                    *)
(***************************************************************************)
\* Number of register / unregister calls made by other subsystems at runtime.
MaxRegOps == 2
\* Number of external modifications of the documentation directories.
MaxExtMods == 1

(***************************************************************************)
(* Strings and their lexicographic order.  Python compares str values by   *)
(* code point; every name used here is lower-case ASCII, so a name is      *)
(* encoded by the alphabet positions of its letters.                       *)
(***************************************************************************)
NameChars ==
    [n \in {"load", "unload", "reload", "auth", "delay", "dump", "list",
            "version", "credits", "help", "docs", "ping", "alpha", "zulu",
            "mu"} |->
        CASE n = "load"    -> <<12, 15, 1, 4>>
          [] n = "unload"  -> <<21, 14, 12, 15, 1, 4>>
          [] n = "reload"  -> <<18, 5, 12, 15, 1, 4>>
          [] n = "auth"    -> <<1, 21, 20, 8>>
          [] n = "delay"   -> <<4, 5, 12, 1, 25>>
          [] n = "dump"    -> <<4, 21, 13, 16>>
          [] n = "list"    -> <<12, 9, 19, 20>>
          [] n = "version" -> <<22, 5, 18, 19, 9, 15, 14>>
          [] n = "credits" -> <<3, 18, 5, 4, 9, 20, 19>>
          [] n = "help"    -> <<8, 5, 12, 16>>
          [] n = "docs"    -> <<4, 15, 3, 19>>
          [] n = "ping"    -> <<16, 9, 14, 7>>
          [] n = "alpha"   -> <<1, 12, 16, 8, 1>>
          [] n = "zulu"    -> <<26, 21, 12, 21>>
          [] n = "mu"      -> <<13, 21>>]

RECURSIVE SeqLess(_, _)
\* s < t for sequences of code points (str.__lt__).
SeqLess(s, t) ==
    IF t = <<>> THEN FALSE
    ELSE IF s = <<>> THEN TRUE
    ELSE IF Head(s) # Head(t) THEN Head(s) < Head(t)
    ELSE SeqLess(Tail(s), Tail(t))

LexLess(a, b) == SeqLess(NameChars[a], NameChars[b])

RECURSIVE InsertSorted(_, _)
InsertSorted(x, s) ==
    IF s = <<>> THEN <<x>>
    ELSE IF LexLess(x, Head(s)) THEN <<x>> \o s
    ELSE <<Head(s)>> \o InsertSorted(x, Tail(s))

RECURSIVE sorted(_)
\* sorted(iterable) over a sequence of names.
sorted(s) == IF s = <<>> THEN <<>> ELSE InsertSorted(Head(s), sorted(Tail(s)))

IsSorted(s) == \A i \in 1..(Len(s) - 1) : LexLess(s[i], s[i + 1])

Range(s) == {s[i] : i \in 1..Len(s)}

(***************************************************************************)
(* Paths.  A path is <<root, name>>; name "" is the root itself.           *)
(***************************************************************************)
NoPath == <<"", "">>
SP_PACKAGES_PATH == <<"SP_PACKAGES_PATH", "">>
SP_DOCS_PATH == <<"SP_DOCS_PATH", "">>
CUSTOM_PACKAGES_PATH == <<"CUSTOM_PACKAGES_PATH", "">>
CUSTOM_PACKAGES_DOCS_PATH == <<"CUSTOM_PACKAGES_DOCS_PATH", "">>
PLUGIN_PATH == <<"PLUGIN_PATH", "">>
PLUGIN_DOCS_PATH == <<"PLUGIN_DOCS_PATH", "">>
VERSION == "VERSION"

\* path / name
Join(root, name) == <<root[1], name>>

\* Package names given on the command line.
Packages == {"source-python", "pkg", "nopkg"}

\* Directory entries: base name, extension and whether it is a directory.
Entry(base, ext, isdir) == [base |-> base, ext |-> ext, isdir |-> isdir]

\* path.namebase: the file name without its extension.
namebase(e) == e.base

\* Path.listdir(): every entry; Path.dirs(): the sub-directories only.
listdir(dir) == dir
dirs(dir) == {e \in dir : e.isdir}

\* Entries that may be present in ../packages/custom and in ../plugins.
CustomEntries ==
    {Entry("pkg", "py", FALSE), Entry("source-python", "", TRUE)}
PluginEntries ==
    {Entry("pkg", "", TRUE), Entry("nopkg", "py", FALSE)}

is_source_python(package) == package = "source-python"

is_custom_package(package, cdir) ==
    package \in {namebase(e) : e \in listdir(cdir)}

is_plugin(package, pdir) ==
    package \in {namebase(e) : e \in dirs(pdir)}

(***************************************************************************)
(* The Sphinx project capability (autodoc.SphinxProject), as the           *)
(* specification describes it: a disk-backed unit observed in one of four  *)
(* states, probed by existence and advanced by create / generate / build.  *)
(***************************************************************************)
States == {"Absent", "Created", "Generated", "Built"}

Rank(s) ==
    CASE s = "Absent" -> 0
      [] s = "Created" -> 1
      [] s = "Generated" -> 2
      [] s = "Built" -> 3

AtLeast(s, t) == IF Rank(s) >= Rank(t) THEN s ELSE t

SphinxProject(package_dir, project_dir) ==
    [package_dir |-> package_dir, project_dir |-> project_dir]

\* Every project directory a command can name.
ProjectDirs ==
    {SP_DOCS_PATH}
        \cup {Join(CUSTOM_PACKAGES_DOCS_PATH, p) : p \in Packages}
        \cup {Join(PLUGIN_DOCS_PATH, p) : p \in Packages}

project_exists(project, d) == d[project.project_dir] # "Absent"

\* create: the scaffolding of a new project is written.
ProjectCreate(s) == "Created"
\* generate_project_files: description files are produced, nothing removed.
ProjectGenerate(s) == AtLeast(s, "Generated")
\* build: the final artifacts are produced.
ProjectBuild(s) == AtLeast(s, "Built")

CapabilityOps == {"create", "generate_project_files", "build"}

\* What a capability leaves on disk: its result when it returns, and, when
\* it raises, either nothing or whatever it had written by then.
Capability(op, s, cap) ==
    LET done == CASE op = "create" -> ProjectCreate(s)
                  [] op = "generate_project_files" -> ProjectGenerate(s)
                  [] op = "build" -> ProjectBuild(s)
    IN  IF cap = "raise" THEN s ELSE done

\* Outcomes of the environment during one call: the capability returns,
\* raises leaving nothing, or raises leaving its writes behind; reading and
\* writing the project's own files works or raises.  A routine reaches a
\* second outcome only when the first was "ok", so one of them is not "ok".
Envs ==
    {e \in [cap : {"ok", "raise", "raise_partial"}, io : {"ok", "raise"}] :
        e.cap = "ok" \/ e.io = "ok"}

(***************************************************************************)
(* Events of one call, in program order: probes, directory listings,       *)
(* capability calls, file rewrites and logged messages.                    *)
(***************************************************************************)
Event(op, src, out, text, arg, items) ==
    [op |-> op, src |-> src, out |-> out, text |-> text, arg |-> arg,
     items |-> items]

\* self.logger.log_message(text.format(arg))
Log(text, arg) == Event("log", NoPath, NoPath, text, arg, <<>>)
Probe(project) ==
    Event("project_exists", project.package_dir, project.project_dir,
          "", "", <<>>)
\* A capability call with its parameters and whether it returned or raised.
Call(op, project, params, outcome) ==
    Event(op, project.package_dir, project.project_dir, outcome, "", params)
Rewrite(project, file, what) ==
    Event("rewrite", project.package_dir, project.project_dir, file, what,
          <<>>)
ListDir(op, root) == Event(op, root, NoPath, "", "", <<>>)

\* What a routine returns to its caller: the events it produced, the disk
\* it leaves and whether it raised.
Result(events, d, raised) ==
    [events |-> events, disk |-> d, raised |-> raised]

(***************************************************************************)
(* The lifecycle routines of _CoreCommandManager.  Each takes the disk d   *)
(* and the environment's outcome env and returns a Result.                 *)
(***************************************************************************)


\* Variant: the project also counts as existing when the operation before
\* found it on disk.
create_source_python_docs_remembered(d, env) ==
    LET project == SphinxProject(SP_PACKAGES_PATH, SP_DOCS_PATH)
        dir == project.project_dir
        after == [d EXCEPT ![dir] = Capability("create", @, env.cap)]
    IN  IF project_exists(project, d) \/ last.before[dir] # "Absent"
        THEN Result(<<Probe(project),
                      Log("Sphinx project already exists for Source.Python", "")>>, d, FALSE)
        ELSE IF env.cap # "ok"
        THEN Result(<<Probe(project),
                      Call("create", project, <<"Source.Python Development Team", "Source.Python", VERSION>>, "raised"),
                      Log("An occured while creating Sphinx project for Source.Python.", "")>>, after, FALSE)
        ELSE Result(<<Probe(project),
                      Call("create", project, <<"Source.Python Development Team", "Source.Python", VERSION>>, "returned"),
                      Log("Sphinx project has been created for Source.Python.", "")>>, after, FALSE)

create_source_python_docs(d, env) ==
    LET project == SphinxProject(SP_PACKAGES_PATH, SP_DOCS_PATH)
        dir == project.project_dir
        after == [d EXCEPT ![dir] = Capability("create", @, env.cap)]
    IN  IF project_exists(project, d)
        THEN Result(<<Probe(project),
                      Log("Sphinx project already exists for Source.Python", "")>>, d, FALSE)
        ELSE IF env.cap # "ok"
        THEN Result(<<Probe(project),
                      Call("create", project, <<"Source.Python Development Team", "Source.Python", VERSION>>, "raised"),
                      Log("An occured while creating Sphinx project for Source.Python.", "")>>, after, FALSE)
        ELSE Result(<<Probe(project),
                      Call("create", project, <<"Source.Python Development Team", "Source.Python", VERSION>>, "returned"),
                      Log("Sphinx project has been created for Source.Python.", "")>>, after, FALSE)


\* Variant: an existing project is created afresh.
create_custom_package_docs_unchecked(package, d, env) ==
    LET project == SphinxProject(Join(CUSTOM_PACKAGES_PATH, package),
                      Join(CUSTOM_PACKAGES_DOCS_PATH, package))
        dir == project.project_dir
        after == [d EXCEPT ![dir] = Capability("create", @, env.cap)]
    IN  IF env.cap # "ok"
        THEN Result(<<Probe(project),
                      Call("create", project, <<"Unknown">>, "raised"),
                      Log("An error occured while creating Sphinx project for custom package \"{0}\".", package)>>, after, FALSE)
        ELSE Result(<<Probe(project),
                      Call("create", project, <<"Unknown">>, "returned"),
                      Log("Sphinx project has been created for custom package \"{0}\".", package)>>, after, FALSE)

create_custom_package_docs(package, d, env) ==
    LET project == SphinxProject(Join(CUSTOM_PACKAGES_PATH, package),
                      Join(CUSTOM_PACKAGES_DOCS_PATH, package))
        dir == project.project_dir
        after == [d EXCEPT ![dir] = Capability("create", @, env.cap)]
    IN  IF project_exists(project, d)
        THEN Result(<<Probe(project),
                      Log("Sphinx project already exists for custom package \"{0}\".", package)>>, d, FALSE)
        ELSE IF env.cap # "ok"
        THEN Result(<<Probe(project),
                      Call("create", project, <<"Unknown">>, "raised"),
                      Log("An error occured while creating Sphinx project for custom package \"{0}\".", package)>>, after, FALSE)
        ELSE Result(<<Probe(project),
                      Call("create", project, <<"Unknown">>, "returned"),
                      Log("Sphinx project has been created for custom package \"{0}\".", package)>>, after, FALSE)


\* Variant: the project is created without asking whether it exists.
create_plugin_docs_unchecked(package, d, env) ==
    LET project == SphinxProject(Join(PLUGIN_PATH, package),
                      Join(PLUGIN_DOCS_PATH, package))
        dir == project.project_dir
        after == [d EXCEPT ![dir] = Capability("create", @, env.cap)]
    IN  IF env.cap # "ok"
        THEN Result(<<Probe(project),
                      Call("create", project, <<"Unknown">>, "raised"),
                      Log("An error occured while creating Sphinx project for plugin \"{0}\".", package)>>, after, FALSE)
        ELSE Result(<<Probe(project),
                      Call("create", project, <<"Unknown">>, "returned"),
                      Log("Sphinx project has been created for plugin \"{0}\".", package)>>, after, FALSE)


\* Variant: the plugin's project is bound to the custom-package roots.
create_plugin_docs_custom_paths(package, d, env) ==
    LET project == SphinxProject(Join(CUSTOM_PACKAGES_PATH, package),
                      Join(CUSTOM_PACKAGES_DOCS_PATH, package))
        dir == project.project_dir
        after == [d EXCEPT ![dir] = Capability("create", @, env.cap)]
    IN  IF project_exists(project, d)
        THEN Result(<<Probe(project),
                      Log("Sphinx project already exists for plugin \"{0}\".", package)>>, d, FALSE)
        ELSE IF env.cap # "ok"
        THEN Result(<<Probe(project),
                      Call("create", project, <<"Unknown">>, "raised"),
                      Log("An error occured while creating Sphinx project for plugin \"{0}\".", package)>>, after, FALSE)
        ELSE Result(<<Probe(project),
                      Call("create", project, <<"Unknown">>, "returned"),
                      Log("Sphinx project has been created for plugin \"{0}\".", package)>>, after, FALSE)

create_plugin_docs(package, d, env) ==
    LET project == SphinxProject(Join(PLUGIN_PATH, package),
                      Join(PLUGIN_DOCS_PATH, package))
        dir == project.project_dir
        after == [d EXCEPT ![dir] = Capability("create", @, env.cap)]
    IN  IF project_exists(project, d)
        THEN Result(<<Probe(project),
                      Log("Sphinx project already exists for plugin \"{0}\".", package)>>, d, FALSE)
        ELSE IF env.cap # "ok"
        THEN Result(<<Probe(project),
                      Call("create", project, <<"Unknown">>, "raised"),
                      Log("An error occured while creating Sphinx project for plugin \"{0}\".", package)>>, after, FALSE)
        ELSE Result(<<Probe(project),
                      Call("create", project, <<"Unknown">>, "returned"),
                      Log("Sphinx project has been created for plugin \"{0}\".", package)>>, after, FALSE)


\* Variant: the description files are rewritten whether or not
\* generate_project_files() raised.
generate_source_python_docs_always_strips(d, env) ==
    LET project == SphinxProject(SP_PACKAGES_PATH, SP_DOCS_PATH)
        dir == project.project_dir
        after == [d EXCEPT ![dir] =
                      Capability("generate_project_files", @, env.cap)]
    IN  IF project_exists(project, d)
        THEN IF env.cap # "ok"
             THEN Result(<<Probe(project),
                           Call("generate_project_files", project, <<>>, "raised"),
                           Log("An error occured while generating project files for Source.Python", ""),
                           Rewrite(project, "*.rst", "source-python.")>>, after, FALSE)
             ELSE IF env.io # "ok"
             THEN Result(<<Probe(project),
                           Call("generate_project_files", project, <<>>, "returned")>>,
                         after, TRUE)
             ELSE Result(<<Probe(project),
                           Call("generate_project_files", project, <<>>, "returned"),
                           Rewrite(project, "*.rst", "source-python."),
                           Log("Project files have been generated for Source.Python.", "")>>, after, FALSE)
        ELSE Result(<<Probe(project),
                      Log("Sphinx project does not exist for Source.Python.", "")>>, d, FALSE)

generate_source_python_docs(d, env) ==
    LET project == SphinxProject(SP_PACKAGES_PATH, SP_DOCS_PATH)
        dir == project.project_dir
        after == [d EXCEPT ![dir] =
                      Capability("generate_project_files", @, env.cap)]
    IN  IF project_exists(project, d)
        THEN IF env.cap # "ok"
             THEN Result(<<Probe(project),
                           Call("generate_project_files", project, <<>>, "raised"),
                           Log("An error occured while generating project files for Source.Python", "")>>, after, FALSE)
             \* The *.rst files are read and rewritten outside any try block.
             ELSE IF env.io # "ok"
             THEN Result(<<Probe(project),
                           Call("generate_project_files", project, <<>>, "returned")>>,
                         after, TRUE)
             ELSE Result(<<Probe(project),
                           Call("generate_project_files", project, <<>>, "returned"),
                           Rewrite(project, "*.rst", "source-python."),
                           Log("Project files have been generated for Source.Python.", "")>>, after, FALSE)
        ELSE Result(<<Probe(project),
                      Log("Sphinx project does not exist for Source.Python.", "")>>, d, FALSE)


\* Variant: the project files are generated without the existence check.
generate_custom_package_docs_unchecked(package, d, env) ==
    LET project == SphinxProject(Join(CUSTOM_PACKAGES_PATH, package),
                      Join(CUSTOM_PACKAGES_DOCS_PATH, package))
        dir == project.project_dir
        after == [d EXCEPT ![dir] =
                      Capability("generate_project_files", @, env.cap)]
    IN  IF env.cap # "ok"
        THEN Result(<<Probe(project),
                      Call("generate_project_files", project, <<>>, "raised"),
                      Log("An error occured while generating project files for custom package \"{0}\".", package)>>, after, FALSE)
        ELSE Result(<<Probe(project),
                      Call("generate_project_files", project, <<>>, "returned"),
                      Log("Project files have been generated for custom package \"{0}\".", package)>>, after, FALSE)

generate_custom_package_docs(package, d, env) ==
    LET project == SphinxProject(Join(CUSTOM_PACKAGES_PATH, package),
                      Join(CUSTOM_PACKAGES_DOCS_PATH, package))
        dir == project.project_dir
        after == [d EXCEPT ![dir] = Capability("generate_project_files", @, env.cap)]
    IN  IF project_exists(project, d)
        THEN IF env.cap # "ok"
             THEN Result(<<Probe(project),
                           Call("generate_project_files", project, <<>>, "raised"),
                           Log("An error occured while generating project files for custom package \"{0}\".", package)>>, after, FALSE)
             ELSE Result(<<Probe(project),
                           Call("generate_project_files", project, <<>>, "returned"),
                           Log("Project files have been generated for custom package \"{0}\".", package)>>, after, FALSE)
        ELSE Result(<<Probe(project),
                      Log("Sphinx project does not exist for custom package \"{0}\".", package)>>, d, FALSE)

generate_plugin_docs(package, d, env) ==
    LET project == SphinxProject(Join(PLUGIN_PATH, package),
                      Join(PLUGIN_DOCS_PATH, package))
        dir == project.project_dir
        after == [d EXCEPT ![dir] = Capability("generate_project_files", @, env.cap)]
    IN  IF project_exists(project, d)
        THEN IF env.cap # "ok"
             THEN Result(<<Probe(project),
                           Call("generate_project_files", project, <<>>, "raised"),
                           Log("An error occured while generating project files for plugin \"{0}\".", package)>>, after, FALSE)
             ELSE Result(<<Probe(project),
                           Call("generate_project_files", project, <<>>, "returned"),
                           Log("Project files have been generated for plugin \"{0}\".", package)>>, after, FALSE)
        ELSE Result(<<Probe(project),
                      Log("Sphinx project does not exist for plugin \"{0}\".", package)>>, d, FALSE)


\* Variant: conf.py is rewritten once the build has returned.
build_source_python_docs_rewrite_after(d, env) ==
    LET project == SphinxProject(SP_PACKAGES_PATH, SP_DOCS_PATH)
        dir == project.project_dir
        after == [d EXCEPT ![dir] = Capability("build", @, env.cap)]
    IN  IF project_exists(project, d)
        THEN IF env.cap # "ok"
             THEN Result(<<Probe(project),
                           Call("build", project, <<>>, "raised"),
                           Log("An error occured while building project files for Source.Python.", "")>>, after, FALSE)
             ELSE IF env.io # "ok"
             THEN Result(<<Probe(project),
                           Call("build", project, <<>>, "returned")>>,
                         after, TRUE)
             ELSE Result(<<Probe(project),
                           Call("build", project, <<>>, "returned"),
                           Rewrite(project, "conf.py", VERSION),
                           Log("Project files have been built for Source.Python.", "")>>, after, FALSE)
        ELSE Result(<<Probe(project),
                      Log("Sphinx project does not exist for Source.Python.", "")>>, d, FALSE)

build_source_python_docs(d, env) ==
    LET project == SphinxProject(SP_PACKAGES_PATH, SP_DOCS_PATH)
        dir == project.project_dir
        after == [d EXCEPT ![dir] = Capability("build", @, env.cap)]
    IN  IF project_exists(project, d)
        \* conf.py is read and rewritten before the try block.
        THEN IF env.io # "ok"
             THEN Result(<<Probe(project)>>, d, TRUE)
             ELSE IF env.cap # "ok"
             THEN Result(<<Probe(project),
                           Rewrite(project, "conf.py", VERSION),
                           Call("build", project, <<>>, "raised"),
                           Log("An error occured while building project files for Source.Python.", "")>>, after, FALSE)
             ELSE Result(<<Probe(project),
                           Rewrite(project, "conf.py", VERSION),
                           Call("build", project, <<>>, "returned"),
                           Log("Project files have been built for Source.Python.", "")>>, after, FALSE)
        ELSE Result(<<Probe(project),
                      Log("Sphinx project does not exist for Source.Python.", "")>>, d, FALSE)


\* Variant: project.build() is called outside any try block.
build_custom_package_docs_uncaught(package, d, env) ==
    LET project == SphinxProject(Join(CUSTOM_PACKAGES_PATH, package),
                      Join(CUSTOM_PACKAGES_DOCS_PATH, package))
        dir == project.project_dir
        after == [d EXCEPT ![dir] = Capability("build", @, env.cap)]
    IN  IF project_exists(project, d)
        THEN IF env.cap # "ok"
             THEN Result(<<Probe(project),
                           Call("build", project, <<>>, "raised")>>,
                         after, TRUE)
             ELSE Result(<<Probe(project),
                           Call("build", project, <<>>, "returned"),
                           Log("Project files have been built for custom package \"{0}\".", package)>>, after, FALSE)
        ELSE Result(<<Probe(project),
                      Log("Sphinx project does not exist for custom package \"{0}\".", package)>>, d, FALSE)

build_custom_package_docs(package, d, env) ==
    LET project == SphinxProject(Join(CUSTOM_PACKAGES_PATH, package),
                      Join(CUSTOM_PACKAGES_DOCS_PATH, package))
        dir == project.project_dir
        after == [d EXCEPT ![dir] = Capability("build", @, env.cap)]
    IN  IF project_exists(project, d)
        THEN IF env.cap # "ok"
             THEN Result(<<Probe(project),
                           Call("build", project, <<>>, "raised"),
                           Log("An error occured while building project files for custom package \"{0}\".", package)>>, after, FALSE)
             ELSE Result(<<Probe(project),
                           Call("build", project, <<>>, "returned"),
                           Log("Project files have been built for custom package \"{0}\".", package)>>, after, FALSE)
        ELSE Result(<<Probe(project),
                      Log("Sphinx project does not exist for custom package \"{0}\".", package)>>, d, FALSE)

build_plugin_docs(package, d, env) ==
    LET project == SphinxProject(Join(PLUGIN_PATH, package),
                      Join(PLUGIN_DOCS_PATH, package))
        dir == project.project_dir
        after == [d EXCEPT ![dir] = Capability("build", @, env.cap)]
    IN  IF project_exists(project, d)
        THEN IF env.cap # "ok"
             THEN Result(<<Probe(project),
                           Call("build", project, <<>>, "raised"),
                           Log("An error occured while building project files for plugin \"{0}\".", package)>>, after, FALSE)
             ELSE Result(<<Probe(project),
                           Call("build", project, <<>>, "returned"),
                           Log("Project files have been built for plugin \"{0}\".", package)>>, after, FALSE)
        ELSE Result(<<Probe(project),
                      Log("Sphinx project does not exist for plugin \"{0}\".", package)>>, d, FALSE)

(***************************************************************************)
(* Category resolution and the docs sub-command.                           *)
(***************************************************************************)
NotAPackage == "\"{0}\" is not source-python, a custom package or a plugin."
InvalidAction ==
    "Invalid action: \"{0}\". Valid action are: create, generate and build"

\* A routine's result with the events that preceded its call put in front.
After(events, r) == [r EXCEPT !.events = events \o @]

\* The directory listings is_custom_package and is_plugin perform.
ListCustom == ListDir("listdir", CUSTOM_PACKAGES_PATH)
ListPlugins == ListDir("dirs", PLUGIN_PATH)


\* Variant: a name that is neither the core nor a custom package is taken
\* for a plugin.
create_sphinx_project_fallthrough(package, d, env, cdir, pdir) ==
    IF is_source_python(package)
    THEN create_source_python_docs(d, env)
    ELSE IF is_custom_package(package, cdir)
    THEN After(<<ListCustom>>, create_custom_package_docs(package, d, env))
    ELSE After(<<ListCustom>>, create_plugin_docs(package, d, env))

create_sphinx_project(package, d, env, cdir, pdir) ==
    IF is_source_python(package)
    THEN create_source_python_docs(d, env)
    ELSE IF is_custom_package(package, cdir)
    THEN After(<<ListCustom>>, create_custom_package_docs(package, d, env))
    ELSE IF is_plugin(package, pdir)
    THEN After(<<ListCustom, ListPlugins>>,
               create_plugin_docs(package, d, env))
    ELSE Result(<<ListCustom, ListPlugins, Log(NotAPackage, package)>>,
                d, FALSE)


\* Variant: the custom-package test is an if of its own, not an elif, so a
\* name that is the core and also a custom package is served twice.
generate_sphinx_project_independent(package, d, env, cdir, pdir) ==
    IF is_source_python(package) /\ is_custom_package(package, cdir)
    THEN LET first == generate_source_python_docs(d, env)
         IN  IF first.raised THEN first
             ELSE After(first.events \o <<ListCustom>>,
                        generate_custom_package_docs(package, first.disk,
                                                     env))
    ELSE IF is_source_python(package)
    THEN generate_source_python_docs(d, env)
    ELSE IF is_custom_package(package, cdir)
    THEN After(<<ListCustom>>,
               generate_custom_package_docs(package, d, env))
    ELSE IF is_plugin(package, pdir)
    THEN After(<<ListCustom, ListPlugins>>,
               generate_plugin_docs(package, d, env))
    ELSE Result(<<ListCustom, ListPlugins, Log(NotAPackage, package)>>,
                d, FALSE)

generate_sphinx_project(package, d, env, cdir, pdir) ==
    IF is_source_python(package)
    THEN generate_source_python_docs(d, env)
    ELSE IF is_custom_package(package, cdir)
    THEN After(<<ListCustom>>,
               generate_custom_package_docs(package, d, env))
    ELSE IF is_plugin(package, pdir)
    THEN After(<<ListCustom, ListPlugins>>,
               generate_plugin_docs(package, d, env))
    ELSE Result(<<ListCustom, ListPlugins, Log(NotAPackage, package)>>,
                d, FALSE)


\* Variant: the plugin root is consulted before the custom-package root.
build_sphinx_project_plugin_first(package, d, env, cdir, pdir) ==
    IF is_source_python(package)
    THEN build_source_python_docs(d, env)
    ELSE IF is_plugin(package, pdir)
    THEN After(<<ListPlugins>>, build_plugin_docs(package, d, env))
    ELSE IF is_custom_package(package, cdir)
    THEN After(<<ListPlugins, ListCustom>>,
               build_custom_package_docs(package, d, env))
    ELSE Result(<<ListPlugins, ListCustom, Log(NotAPackage, package)>>,
                d, FALSE)

build_sphinx_project(package, d, env, cdir, pdir) ==
    IF is_source_python(package)
    THEN build_source_python_docs(d, env)
    ELSE IF is_custom_package(package, cdir)
    THEN After(<<ListCustom>>, build_custom_package_docs(package, d, env))
    ELSE IF is_plugin(package, pdir)
    THEN After(<<ListCustom, ListPlugins>>,
               build_plugin_docs(package, d, env))
    ELSE Result(<<ListCustom, ListPlugins, Log(NotAPackage, package)>>,
                d, FALSE)


\* Variant: any action that is neither create nor generate builds.
docs_handler_default_build(action, package, d, env, cdir, pdir) ==
    IF action = "create"
    THEN create_sphinx_project(package, d, env, cdir, pdir)
    ELSE IF action = "generate"
    THEN generate_sphinx_project(package, d, env, cdir, pdir)
    ELSE build_sphinx_project(package, d, env, cdir, pdir)


\* Variant: the build action is routed to the generate routine.
docs_handler_build_generates(action, package, d, env, cdir, pdir) ==
    IF action = "create"
    THEN create_sphinx_project(package, d, env, cdir, pdir)
    ELSE IF action = "generate"
    THEN generate_sphinx_project(package, d, env, cdir, pdir)
    ELSE IF action = "build"
    THEN generate_sphinx_project(package, d, env, cdir, pdir)
    ELSE Result(<<Log(InvalidAction, action)>>, d, FALSE)

docs_handler(action, package, d, env, cdir, pdir) ==
    IF action = "create"
    THEN create_sphinx_project(package, d, env, cdir, pdir)
    ELSE IF action = "generate"
    THEN generate_sphinx_project(package, d, env, cdir, pdir)
    ELSE IF action = "build"
    THEN build_sphinx_project(package, d, env, cdir, pdir)
    ELSE Result(<<Log(InvalidAction, action)>>, d, FALSE)

(***************************************************************************)
(* The other handlers defined in command.py.                               *)
(***************************************************************************)
\* Tokens float() accepts.
Numeric == {"1.5"}

\* delay_execution(*args): args[0] raises IndexError on no tokens, float()
\* raises ValueError on a token that is no number; otherwise the rest of
\* the line is handed to the tick scheduler and nothing is logged.
delay_execution(args, d) ==
    IF Len(args) = 0 \/ Head(args) \notin Numeric
    THEN Result(<<>>, d, TRUE)
    ELSE Result(<<Event("tick_delays.delay", NoPath, NoPath,
                        "engine_server.server_command", Head(args),
                        Tail(args))>>, d, FALSE)

\* The dump functions exported by core.dumps.
DumpsAll == <<"dump_class_info", "dump_convars">>

\* The names that follow 'dump_' in the names of the dump functions.
DumpStems == {"class_info", "convars"}

\* dump.replace('dump_', ''): the name of a dump function without 'dump_';
\* a name that does not hold 'dump_' is left as it is.
StripDump(dump) ==
    IF \E stem \in DumpStems : "dump_" \o stem = dump
    THEN CHOOSE stem \in DumpStems : "dump_" \o stem = dump
    ELSE dump

RECURSIVE DumpNames(_)
DumpNames(all) ==
    IF all = <<>> THEN <<>>
    ELSE <<Log("\t{0}", StripDump(Head(all)))>> \o DumpNames(Tail(all))

dump_data(dump_type, filename, d, env) ==
    IF ("dump_" \o dump_type) \notin Range(DumpsAll)
    THEN Result(<<Log("Invalid dump_type \"{0}\". The valid types are:",
                      dump_type)>> \o DumpNames(DumpsAll), d, FALSE)
    ELSE Result(<<Event("dumps.dump", NoPath, NoPath, dump_type, filename,
                        <<>>)>>, d, env.io # "ok")

print_version(d) ==
    Result(<<Log("Current Source.Python version: {0}", VERSION)>>, d, FALSE)

\* '=' * 61: the width of the separator rule of a report.
SeparatorWidth == 61

\* c * n
RECURSIVE Repeat(_, _)
Repeat(c, n) == IF n = 0 THEN "" ELSE c \o Repeat(c, n - 1)

Separator == Repeat("=", SeparatorWidth)

\* _plugin_strings['Plugins'].get_string()
PluginsTitle == "Plugins"

\* A value of a PluginInfo item: a plain value or a ConVar.
Plain(value) ==
    [convar |-> FALSE, name |-> "", help |-> "", string |-> value]
ConVar(name, help, string) ==
    [convar |-> TRUE, name |-> name, help |-> help, string |-> string]

\* self.manager[plugin_name].info of the plugins that can be loaded: None
\* (present FALSE) or the items of a PluginInfo, in its own order.
PluginInfoOf(name) ==
    CASE name = "mu" ->
             [present |-> TRUE,
              items |-> <<[item |-> "author", value |-> Plain("Ayuto")],
                          [item |-> "cvar",
                           value |-> ConVar("mu_version", "Version of mu",
                                            "1.0")]>>]
      [] name = "zulu" -> [present |-> TRUE, items |-> <<>>]
      [] OTHER -> [present |-> FALSE, items |-> <<>>]

\* '{0}:\n\t\t\t{1}: {2}' for a ConVar, the value itself otherwise; the
\* text is kept as its lines.
ValueLines(value) ==
    IF value.convar
    THEN <<"\t\t" \o value.name \o ":",
           "\t\t\t" \o value.help \o ": " \o value.string>>
    ELSE <<"\t\t" \o value.string>>

\* '\t{0}:\n\t\t{1}\n' for every item of the PluginInfo.
RECURSIVE ItemLines(_)
ItemLines(items) ==
    IF items = <<>> THEN <<>>
    ELSE <<"\t" \o Head(items).item \o ":">>
             \o ValueLines(Head(items).value)
             \o ItemLines(Tail(items))

\* The lines of the loop over the plugin names: the name (with a colon and
\* the items when the plugin has a PluginInfo) and one blank line each.
RECURSIVE PluginLines(_)
PluginLines(plugin_names) ==
    IF plugin_names = <<>> THEN <<>>
    ELSE LET plugin_name == Head(plugin_names)
             info == PluginInfoOf(plugin_name)
         IN  (IF info.present
              THEN <<plugin_name \o ":">> \o ItemLines(info.items)
              ELSE <<plugin_name>>)
                 \o <<"">> \o PluginLines(Tail(plugin_names))

\* Variant: the plugins are listed in the order they were loaded.
print_plugins_load_order(prefix, loaded, d) ==
    Result(<<Event("log", NoPath, NoPath, "Plugins", prefix,
                   <<prefix \o PluginsTitle, Separator, "">>
                       \o PluginLines(loaded)
                       \o <<Separator>>)>>, d, FALSE)

\* print_plugins: one message, kept as its lines: title, separator, blank
\* line, the plugins in sorted order, closing separator.
print_plugins(prefix, loaded, d) ==
    Result(<<Event("log", NoPath, NoPath, "Plugins", prefix,
                   <<prefix \o PluginsTitle, Separator, "">>
                       \o PluginLines(sorted(loaded))
                       \o <<Separator>>)>>, d, FALSE)

\* The credits are read from credits.ini before anything is logged.
print_credits(prefix, d, env) ==
    IF env.io # "ok"
    THEN Result(<<>>, d, TRUE)
    ELSE Result(<<Event("log", NoPath, NoPath, "Credits", prefix, <<>>)>>,
                d, FALSE)

(***************************************************************************)
(* The sub-command registry (plugins.command.SubCommandManager): an        *)
(* insertion-ordered mapping from name to handler with a prefix.           *)
(***************************************************************************)
Prefix == "[SP] "

Keys(reg) == [i \in 1..Len(reg) |-> reg[i].name]

Has(reg, name) == \E i \in 1..Len(reg) : reg[i].name = name

lookup(reg, name) ==
    reg[CHOOSE i \in 1..Len(reg) : reg[i].name = name].handler


\* Variant: every registration adds an entry, also for a name already there.
register_append(reg, name, handler) ==
    Append(reg, [name |-> name, handler |-> handler])


\* Variant: a name already registered keeps its first handler.
register_first_wins(reg, name, handler) ==
    IF Has(reg, name)
    THEN reg
    ELSE Append(reg, [name |-> name, handler |-> handler])

\* registry[name] = handler: overwrite in place, or insert at the end.
register(reg, name, handler) ==
    IF Has(reg, name)
    THEN [i \in 1..Len(reg) |->
             IF reg[i].name = name
             THEN [name |-> name, handler |-> handler]
             ELSE reg[i]]
    ELSE Append(reg, [name |-> name, handler |-> handler])

\* Remove the entry if present; no-op otherwise.
unregister(reg, name) == SelectSeq(reg, LAMBDA e : e.name # name)


\* Variant: the names in insertion order.
names_unsorted(reg) == Keys(reg)

\* names(): the registered names in lexicographic order.
names(reg) == sorted(Keys(reg))

\* The registration statements at the end of command.py, in order.
CoreRegistrations ==
    << <<"load", "load_plugin">>,
       <<"unload", "unload_plugin">>,
       <<"reload", "reload_plugin">>,
       <<"auth", "auth_commands">>,
       <<"delay", "delay_execution">>,
       <<"dump", "dump_data">>,
       <<"list", "print_plugins">>,
       <<"version", "print_version">>,
       <<"credits", "print_credits">>,
       <<"help", "print_help">>,
       <<"docs", "docs_handler">> >>

(***************************************************************************)
(* Handlers the registry inherits or receives from other subsystems.       *)
(***************************************************************************)
PluginNames == {"alpha", "zulu", "mu"}

load_plugin(name, loaded) ==
    IF name \in Range(loaded) THEN loaded ELSE Append(loaded, name)

unload_plugin(name, loaded) == SelectSeq(loaded, LAMBDA n : n # name)

reload_plugin(name, loaded) ==
    IF name \in Range(loaded)
    THEN load_plugin(name, unload_plugin(name, loaded))
    ELSE loaded

\* The help listing: the prefix and the sorted names.
HelpListing(title, reg) ==
    Event("log", NoPath, NoPath, title, Prefix, names(reg))

UnknownCommand == "Unknown command"
InternalError == "Internal error"

(***************************************************************************)
(* Invocation of a handler with the argument tokens.  A Python call with   *)
(* the wrong number of positional arguments raises TypeError.              *)
(***************************************************************************)
Handled(r, loaded) ==
    [events |-> r.events, disk |-> r.disk, raised |-> r.raised,
     manager |-> loaded]

Raise(d, loaded) == Handled(Result(<<>>, d, TRUE), loaded)

PluginCommand(handler, args, d, loaded) ==
    IF Len(args) # 1 THEN Raise(d, loaded)
    ELSE LET after ==
                 CASE handler = "load_plugin" -> load_plugin(args[1], loaded)
                   [] handler = "unload_plugin" ->
                          unload_plugin(args[1], loaded)
                   [] handler = "reload_plugin" ->
                          reload_plugin(args[1], loaded)
         IN  Handled(Result(<<Log(handler, args[1])>>, d, FALSE), after)

Invoke(handler, args, reg, loaded, d, env, cdir, pdir) ==
    CASE handler = "docs_handler" ->
             IF Len(args) # 2 THEN Raise(d, loaded)
             ELSE Handled(docs_handler(args[1], args[2], d, env, cdir, pdir),
                          loaded)
      [] handler = "delay_execution" ->
             Handled(delay_execution(args, d), loaded)
      [] handler = "dump_data" ->
             IF Len(args) # 2 THEN Raise(d, loaded)
             ELSE Handled(dump_data(args[1], args[2], d, env), loaded)
      [] handler = "print_plugins" ->
             IF Len(args) # 0 THEN Raise(d, loaded)
             ELSE Handled(print_plugins(Prefix, loaded, d), loaded)
      [] handler = "print_version" ->
             IF Len(args) # 0 THEN Raise(d, loaded)
             ELSE Handled(print_version(d), loaded)
      [] handler = "print_credits" ->
             IF Len(args) # 0 THEN Raise(d, loaded)
             ELSE Handled(print_credits(Prefix, d, env), loaded)
      [] handler = "print_help" ->
             Handled(Result(<<HelpListing("Help", reg)>>, d, FALSE), loaded)
      [] handler = "auth_commands" ->
             Handled(Result(<<Log("auth", "")>>, d, FALSE), loaded)
      [] handler \in {"load_plugin", "unload_plugin", "reload_plugin"} ->
             PluginCommand(handler, args, d, loaded)
      [] handler = "faulty_handler" -> Raise(d, loaded)

(***************************************************************************)
(* dispatch: look the command up, invoke its handler, absorb what it       *)
(* raises.  The outcome records whether an exception reached the caller.   *)
(***************************************************************************)
Outcome(h, invoked, propagated) ==
    [events |-> h.events, disk |-> h.disk, manager |-> h.manager,
     raised |-> h.raised, invoked |-> invoked, propagated |-> propagated]


\* Variant: what the handler raises reaches the caller.
dispatch_uncaught(reg, cmd, args, loaded, d, env, cdir, pdir) ==
    IF cmd = "" \/ ~Has(reg, cmd)
    THEN Outcome(Handled(Result(<<HelpListing(UnknownCommand, reg)>>,
                                d, FALSE), loaded), <<>>, FALSE)
    ELSE LET handler == lookup(reg, cmd)
             h == Invoke(handler, args, reg, loaded, d, env, cdir, pdir)
         IN  Outcome(h, <<handler>>, h.raised)

dispatch(reg, cmd, args, loaded, d, env, cdir, pdir) ==
    IF cmd = "" \/ ~Has(reg, cmd)
    THEN Outcome(Handled(Result(<<HelpListing(UnknownCommand, reg)>>,
                                d, FALSE), loaded), <<>>, FALSE)
    ELSE LET handler == lookup(reg, cmd)
             h == Invoke(handler, args, reg, loaded, d, env, cdir, pdir)
         IN  IF h.raised
             THEN Outcome([h EXCEPT !.events = @ \o <<Log(InternalError, cmd)>>],
                          <<handler>>, FALSE)
             ELSE Outcome(h, <<handler>>, FALSE)

(***************************************************************************)
(* State machine.                                                          *)
(***************************************************************************)
Operation(kind, cmd, args, o, before, entries) ==
    [kind |-> kind, cmd |-> cmd, args |-> args, events |-> o.events,
     raised |-> o.raised, propagated |-> o.propagated,
     invoked |-> o.invoked, before |-> before, entries |-> entries,
     run |-> 0, undone |-> 0]


\* The project directory the routers bind a package name to.
Bound(package, cdir, pdir) ==
    IF is_source_python(package) THEN SP_DOCS_PATH
    ELSE IF is_custom_package(package, cdir)
    THEN Join(CUSTOM_PACKAGES_DOCS_PATH, package)
    ELSE IF is_plugin(package, pdir) THEN Join(PLUGIN_DOCS_PATH, package)
    ELSE NoPath

\* History: how far the operation o carries an uninterrupted run of
\* create, generate, build on one package, begun on an Absent unit, in
\* which nothing the environment did has failed.  l is the operation before.
Run(l, cmd, args, o, before, cdir, pdir) ==
    LET clean ==
            /\ cmd = "docs" /\ o.invoked = <<"docs_handler">>
            /\ Len(args) = 2
            /\ ~o.raised
            /\ \A i \in 1..Len(o.events) :
                   o.events[i].op \in CapabilityOps =>
                       o.events[i].text = "returned"
    IN  IF ~clean THEN 0
        ELSE IF /\ args[1] = "create"
                /\ Bound(args[2], cdir, pdir) # NoPath
                /\ before[Bound(args[2], cdir, pdir)] = "Absent"
        THEN 1
        ELSE IF /\ args[1] = "generate"
                /\ l.run = 1 /\ l.args = <<"create", args[2]>>
        THEN 2
        ELSE IF /\ args[1] = "build"
                /\ l.run = 2 /\ l.args = <<"generate", args[2]>>
        THEN 3
        ELSE 0


\* History: the stage of the run that the deletion of dir from outside
\* undoes, 0 when the operation before was not part of a run on dir.
Undone(l, dir, cdir, pdir) ==
    IF /\ l.kind = "dispatch" /\ l.run >= 1
       /\ Bound(l.args[2], cdir, pdir) = dir
    THEN l.run
    ELSE 0

\* An operation that is no dispatch: it logs nothing and invokes nothing.
Quiet == [events |-> <<>>, raised |-> FALSE, propagated |-> FALSE,
          invoked |-> <<>>]

\* What is remembered of an operation once the next one has run.
Summary(l) ==
    [kind |-> l.kind, cmd |-> l.cmd, args |-> l.args, raised |-> l.raised,
     undone |-> l.undone,
     calls |-> SelectSeq(l.events, LAMBDA e : e.op \in CapabilityOps),
     final |-> IF l.events = <<>> THEN "" ELSE l.events[Len(l.events)].text]

Started == pc > Len(CoreRegistrations)

\* The history of registrations after name is bound to handler.
Recorded(pairs, name, handler) ==
    {e \in pairs : e[1] # name} \cup {<<name, handler>>}

Init ==
    /\ registry = <<>>
    /\ registered = {}
    /\ pc = 1
    /\ regOps = 0
    /\ extMods = 0
    /\ manager = <<>>
    /\ disk = [dir \in ProjectDirs |-> "Absent"]
    /\ customDir \in {c \in SUBSET CustomEntries :
                          Entry("source-python", "", TRUE) \in c}
    /\ pluginDir \in {c \in SUBSET PluginEntries :
                          Entry("nopkg", "py", FALSE) \in c}
    /\ last = Operation("init", "", <<>>, Quiet,
                        [dir \in ProjectDirs |-> "Absent"], <<>>)
    /\ prev = Summary(Operation("init", "", <<>>, Quiet,
                                [dir \in ProjectDirs |-> "Absent"], <<>>))

\* Module import: the next registration statement of command.py runs.
StartupRegister ==
    /\ ~Started
    /\ registry' = register(registry, CoreRegistrations[pc][1],
                            CoreRegistrations[pc][2])
    /\ registered' = Recorded(registered, CoreRegistrations[pc][1],
                               CoreRegistrations[pc][2])
    /\ pc' = pc + 1
    /\ last' = Operation("register", CoreRegistrations[pc][1], <<>>, Quiet,
                         disk, registry)
    /\ prev' = Summary(last)
    /\ UNCHANGED <<regOps, extMods, manager, disk, customDir, pluginDir>>

\* Names and handlers other subsystems register at runtime.
RuntimeNames == {"ping", "list"}
RuntimeHandlers == {"print_version", "faulty_handler"}

Register(name, handler) ==
    /\ Started
    /\ regOps < MaxRegOps
    /\ registry' = register(registry, name, handler)
    /\ registered' = Recorded(registered, name, handler)
    /\ regOps' = regOps + 1
    /\ last' = Operation("register", name, <<>>, Quiet, disk, registry)
    /\ prev' = Summary(last)
    /\ UNCHANGED <<pc, extMods, manager, disk, customDir, pluginDir>>

Unregister(name) ==
    /\ Started
    /\ regOps < MaxRegOps
    /\ registry' = unregister(registry, name)
    /\ registered' = {e \in registered : e[1] # name}
    /\ regOps' = regOps + 1
    /\ last' = Operation("unregister", name, <<>>, Quiet, disk, registry)
    /\ prev' = Summary(last)
    /\ UNCHANGED <<pc, extMods, manager, disk, customDir, pluginDir>>

\* The host delivers one command line: "sp <cmd> <args...>".
Dispatch(cmd, args, env) ==
    /\ Started
    /\ \E o \in {dispatch(registry, cmd, args, manager, disk, env,
                          customDir, pluginDir)} :
           /\ disk' = o.disk
           /\ manager' = o.manager
           /\ last' = [Operation("dispatch", cmd, args, o, disk, registry)
                           EXCEPT !.run = Run(last, cmd, args, o, disk,
                                              customDir, pluginDir)]
    /\ prev' = Summary(last)
    /\ UNCHANGED <<registry, registered, pc, regOps, extMods, customDir,
                   pluginDir>>

\* Someone removes a documentation project directory by hand.
ExternalDelete(dir) ==
    /\ Started
    /\ extMods < MaxExtMods
    /\ disk[dir] # "Absent"
    /\ disk' = [disk EXCEPT ![dir] = "Absent"]
    /\ extMods' = extMods + 1
    /\ last' = [Operation("external", "", dir, Quiet, disk, registry)
                    EXCEPT !.undone = Undone(last, dir, customDir, pluginDir)]
    /\ prev' = Summary(last)
    /\ UNCHANGED <<registry, registered, pc, regOps, manager, customDir,
                   pluginDir>>

(***************************************************************************)
(* Command lines the host delivers.                                        *)
(***************************************************************************)
Actions == {"create", "generate", "build"}

ArgInputs(cmd) ==
    CASE cmd = "docs" ->
             {<<a, p>> : a \in Actions \cup {"clean"}, p \in Packages}
                 \cup {<<>>, <<"create">>}
      [] cmd = "delay" ->
             {<<>>, <<"soon">>, <<"1.5">>, <<"1.5", "version">>}
      [] cmd = "dump" -> {<<>>, <<"bogus", "out">>, <<"convars", "out">>}
      [] cmd \in {"load", "unload", "reload"} ->
             {<<>>} \cup {<<n>> : n \in PluginNames}
      [] OTHER -> {<<>>}

CommandInputs ==
    {CoreRegistrations[i][1] : i \in 1..Len(CoreRegistrations)}
        \cup RuntimeNames \cup {"", "bogus"}

OkEnv == [cap |-> "ok", io |-> "ok"]
EnvInputs(cmd) ==
    IF cmd \in {"docs", "dump"} THEN Envs
    ELSE IF cmd = "credits" THEN {e \in Envs : e.cap = "ok"}
    ELSE {OkEnv}

DispatchFrom(inputs) ==
    \E in \in inputs : \E env \in EnvInputs(in[1]) :
        Dispatch(in[1], in[2], env)

Inputs(cmds) ==
    UNION {{<<c, a>> : a \in ArgInputs(c)} : c \in cmds}

Next ==
    \/ StartupRegister
    \/ \E n \in RuntimeNames, h \in RuntimeHandlers : Register(n, h)
    \/ \E n \in RuntimeNames : Unregister(n)
    \/ DispatchFrom(Inputs(CommandInputs))
    \/ \E dir \in ProjectDirs : ExternalDelete(dir)

Spec == Init /\ [][Next]_vars

\* The documentation commands served by the registry as built at import.
NextDocs ==
    \/ StartupRegister
    \/ DispatchFrom(Inputs({"docs", "version"}))
    \/ \E dir \in ProjectDirs : ExternalDelete(dir)

SpecDocs == Init /\ [][NextDocs]_vars

\* The registry under registration, removal and dispatch: every command
\* but the documentation lifecycle, of which the calls that can raise.
RegistryInputs ==
    Inputs(CommandInputs \ {"docs", "load", "unload", "reload"})
        \cup {<<"docs", <<>>>>,
              <<"docs", <<"create", "source-python">>>>,
              <<"docs", <<"build", "source-python">>>>,
              <<"reload", <<>>>>}

NextRegistry ==
    \/ StartupRegister
    \/ \E n \in RuntimeNames, h \in RuntimeHandlers : Register(n, h)
    \/ \E n \in RuntimeNames : Unregister(n)
    \/ DispatchFrom(RegistryInputs)

\* The registry's behaviour does not depend on the package roots.
InitRegistry ==
    /\ Init
    /\ customDir = {Entry("source-python", "", TRUE)}
    /\ pluginDir = {Entry("nopkg", "py", FALSE)}

SpecRegistry == InitRegistry /\ [][NextRegistry]_vars

\* Plugins are loaded, unloaded and reloaded, and listed.
PluginInputs == Inputs({"load", "unload", "reload", "list"})

NextPlugins ==
    \/ StartupRegister
    \/ DispatchFrom(PluginInputs)

SpecPlugins == InitRegistry /\ [][NextPlugins]_vars

TypeOK ==
    /\ pc \in 1..(Len(CoreRegistrations) + 1)
    /\ \A dir \in ProjectDirs : disk[dir] \in States

(***************************************************************************)
(* Vocabulary of the properties.                                           *)
(***************************************************************************)
Logs(l) == SelectSeq(l.events, LAMBDA e : e.op = "log")
Calls(l) == SelectSeq(l.events, LAMBDA e : e.op \in CapabilityOps)
Probes(l) == SelectSeq(l.events, LAMBDA e : e.op = "project_exists")
Rewrites(l) == SelectSeq(l.events, LAMBDA e : e.op = "rewrite")
Listings(l) == SelectSeq(l.events, LAMBDA e : e.op \in {"listdir", "dirs"})

\* The latest operation is docs_handler(verb, package) called by dispatch.
DocsCall(l) ==
    /\ l.kind = "dispatch"
    /\ l.cmd = "docs"
    /\ l.invoked = <<"docs_handler">>
    /\ Len(l.args) = 2
Verb(l) == l.args[1]
Package(l) == l.args[2]

InCustomRoot(p) == \E e \in customDir : e.base = p
InPluginRoot(p) == \E e \in pluginDir : e.isdir /\ e.base = p

\* The category the specification assigns to a package name.
Category(p) ==
    IF p = "source-python" THEN "CoreTree"
    ELSE IF InCustomRoot(p) THEN "CustomPackage"
    ELSE IF InPluginRoot(p) THEN "Plugin"
    ELSE "Rejected"

\* The project directory of a package of a category.
UnitDir(p) ==
    CASE Category(p) = "CoreTree" -> <<"SP_DOCS_PATH", "">>
      [] Category(p) = "CustomPackage" -> <<"CUSTOM_PACKAGES_DOCS_PATH", p>>
      [] Category(p) = "Plugin" -> <<"PLUGIN_DOCS_PATH", p>>
      [] OTHER -> NoPath

Categories == {"CoreTree", "CustomPackage", "Plugin"}

CreatedTexts ==
    {"Sphinx project has been created for Source.Python.",
     "Sphinx project has been created for custom package \"{0}\".",
     "Sphinx project has been created for plugin \"{0}\"."}
ExistsTexts ==
    {"Sphinx project already exists for Source.Python",
     "Sphinx project already exists for custom package \"{0}\".",
     "Sphinx project already exists for plugin \"{0}\"."}
MissingTexts ==
    {"Sphinx project does not exist for Source.Python.",
     "Sphinx project does not exist for custom package \"{0}\".",
     "Sphinx project does not exist for plugin \"{0}\"."}
FailureTexts ==
    {"An occured while creating Sphinx project for Source.Python.",
     "An error occured while creating Sphinx project for custom package \"{0}\".",
     "An error occured while creating Sphinx project for plugin \"{0}\".",
     "An error occured while generating project files for Source.Python",
     "An error occured while generating project files for custom package \"{0}\".",
     "An error occured while generating project files for plugin \"{0}\".",
     "An error occured while building project files for Source.Python.",
     "An error occured while building project files for custom package \"{0}\".",
     "An error occured while building project files for plugin \"{0}\"."}
SuccessTexts ==
    CreatedTexts \cup
    {"Project files have been generated for Source.Python.",
     "Project files have been generated for custom package \"{0}\".",
     "Project files have been generated for plugin \"{0}\".",
     "Project files have been built for Source.Python.",
     "Project files have been built for custom package \"{0}\".",
     "Project files have been built for plugin \"{0}\"."}

\* The package a message names: none for the core tree, whose messages
\* spell out Source.Python.
Named(p) == IF Category(p) = "CoreTree" THEN "" ELSE p

NoCallRaised(l) == \A i \in 1..Len(Calls(l)) : Calls(l)[i].text = "returned"
SomeCallRaised(l) == \E i \in 1..Len(Calls(l)) : Calls(l)[i].text = "raised"

(***************************************************************************)
(* C1: create is idempotent.  On an Absent unit of a resolved package a    *)
(* create whose capability call returns invokes the create capability      *)
(* exactly once, reports "has been created" and leaves the unit Created; a *)
(* create that directly follows it invokes no capability, reports          *)
(* "already exists" and leaves the disk as it found it, still Created.     *)
(***************************************************************************)
FirstCreate(l) ==
    /\ DocsCall(l) /\ Verb(l) = "create"
    /\ Category(Package(l)) \in Categories
    /\ l.before[UnitDir(Package(l))] = "Absent"
    /\ NoCallRaised(l)

SecondCreate ==
    /\ DocsCall(last) /\ Verb(last) = "create"
    /\ prev.kind = "dispatch" /\ prev.cmd = "docs"
    /\ prev.args = last.args
    /\ Len(prev.calls) = 1
    /\ prev.calls[1].op = "create" /\ prev.calls[1].text = "returned"

C1_CreateIdempotent ==
    /\ FirstCreate(last) =>
           /\ Len(Calls(last)) = 1
           /\ Calls(last)[1].op = "create"
           /\ Calls(last)[1].out = UnitDir(Package(last))
           /\ Len(Logs(last)) = 1
           /\ Logs(last)[1].text \in CreatedTexts
           /\ disk[UnitDir(Package(last))] = "Created"
    /\ SecondCreate =>
           /\ Calls(last) = <<>>
           /\ Len(Logs(last)) = 1
           /\ Logs(last)[1].text \in ExistsTexts
           /\ disk = last.before
           /\ disk[UnitDir(Package(last))] = "Created"

C1_Witness ==
    /\ SecondCreate
    /\ Category(Package(last)) = "Plugin"
    /\ Logs(last)[1].text = "Sphinx project already exists for plugin \"{0}\"."

(***************************************************************************)
(* C2: generate or build on an Absent unit, in every category, calls no    *)
(* capability, rewrites no file, reports "does not exist" and leaves the   *)
(* unit Absent.                                                            *)
(***************************************************************************)
OnAbsent(l) ==
    /\ DocsCall(l) /\ Verb(l) \in {"generate", "build"}
    /\ Category(Package(l)) \in Categories
    /\ l.before[UnitDir(Package(l))] = "Absent"

C2_AbsentUntouched ==
    OnAbsent(last) =>
        /\ Calls(last) = <<>>
        /\ Rewrites(last) = <<>>
        /\ Len(Logs(last)) = 1
        /\ Logs(last)[1].text \in MissingTexts
        /\ Logs(last)[1].arg = Named(Package(last))
        /\ ~last.raised
        /\ disk = last.before

C2_Witness ==
    /\ OnAbsent(last)
    /\ Verb(last) = "build"
    /\ Category(Package(last)) = "CoreTree"
    /\ Logs(last)[1].text = "Sphinx project does not exist for Source.Python."

(***************************************************************************)
(* C3: category precedence.  For each of the three verbs the core          *)
(* identifier is handled as CoreTree whatever the roots contain, a name in *)
(* the custom-package root as CustomPackage even when the plugin root has  *)
(* it too, and only then a plugin directory as Plugin; exactly one         *)
(* category's routine runs, probing that category's project.               *)
(***************************************************************************)
OneRoutine(l, dir) ==
    /\ Len(Probes(l)) = 1
    /\ Probes(l)[1].out = dir
    /\ \A i \in 1..Len(l.events) :
           l.events[i].op \in CapabilityOps \cup {"rewrite"} =>
               l.events[i].out = dir

C3_Precedence ==
    (DocsCall(last) /\ Verb(last) \in Actions) =>
        LET p == Package(last)
        IN  /\ p = "source-python" => OneRoutine(last, <<"SP_DOCS_PATH", "">>)
            /\ (p # "source-python" /\ InCustomRoot(p)) =>
                   OneRoutine(last, <<"CUSTOM_PACKAGES_DOCS_PATH", p>>)
            /\ (p # "source-python" /\ ~InCustomRoot(p) /\ InPluginRoot(p)) =>
                   OneRoutine(last, <<"PLUGIN_DOCS_PATH", p>>)

C3_Witness ==
    /\ DocsCall(last) /\ Verb(last) = "generate"
    /\ Package(last) = "pkg"
    /\ InCustomRoot("pkg") /\ InPluginRoot("pkg")
    /\ Probes(last)[1].out = <<"CUSTOM_PACKAGES_DOCS_PATH", "pkg">>
    /\ Len(Calls(last)) = 1

(***************************************************************************)
(* C4: a package name that matches no category gets, for every verb,       *)
(* exactly one message (the rejection naming the three categories) and no  *)
(* project capability call, probe or rewrite; the disk is unchanged.       *)
(***************************************************************************)
RejectedCall(l) ==
    /\ DocsCall(l) /\ Verb(l) \in Actions
    /\ Category(Package(l)) = "Rejected"

C4_RejectedOnlyReports ==
    RejectedCall(last) =>
        /\ Logs(last) = <<Log(NotAPackage, Package(last))>>
        /\ Calls(last) = <<>>
        /\ Probes(last) = <<>>
        /\ Rewrites(last) = <<>>
        /\ ~last.raised
        /\ disk = last.before

C4_Witness ==
    /\ RejectedCall(last)
    /\ Verb(last) = "build"
    /\ Package(last) = "nopkg"
    /\ Len(Logs(last)) = 1

(***************************************************************************)
(* C5: an exception of the create, generate or build capability is caught  *)
(* in the lifecycle routine: the handler does not raise, exactly one       *)
(* failure message naming the package is logged and no confirmation; the   *)
(* command that follows is served.                                         *)
(***************************************************************************)
C5_CapabilityFailureCaught ==
    /\ (DocsCall(last) /\ SomeCallRaised(last)) =>
           /\ ~last.raised
           /\ ~last.propagated
           /\ Len(Logs(last)) = 1
           /\ Logs(last)[1].text \in FailureTexts
           /\ Logs(last)[1].arg = Named(Package(last))
    /\ (prev.kind = "dispatch" /\ Len(prev.calls) = 1
            /\ prev.calls[1].text = "raised" /\ last.kind = "dispatch") =>
           /\ ~last.propagated
           /\ last.cmd = "version" =>
                  last.events =
                      <<Log("Current Source.Python version: {0}", VERSION)>>
           /\ last.cmd = "docs" => Len(Logs(last)) = 1

C5_Witness ==
    /\ prev.kind = "dispatch" /\ Len(prev.calls) = 1
    /\ prev.calls[1].op = "build" /\ prev.calls[1].text = "raised"
    /\ prev.final \in FailureTexts
    /\ last.kind = "dispatch" /\ last.cmd = "version"
    /\ Len(Logs(last)) = 1

(***************************************************************************)
(* C6: an action other than create, generate or build is answered with the *)
(* usage message alone: no directory is listed, no project probed and no   *)
(* capability called, whatever the package.                                *)
(***************************************************************************)
BadAction(l) == DocsCall(l) /\ Verb(l) \notin Actions

C6_InvalidActionOnlyUsage ==
    BadAction(last) =>
        /\ last.events = <<Log(InvalidAction, Verb(last))>>
        /\ ~last.raised
        /\ disk = last.before

C6_Witness ==
    /\ BadAction(last)
    /\ Package(last) = "source-python"
    /\ Listings(last) = <<>> /\ Probes(last) = <<>> /\ Calls(last) = <<>>
    /\ Len(Logs(last)) = 1

(***************************************************************************)
(* C7: lifecycle transitions are monotonic.  A docs call whose capability  *)
(* calls all return never moves a unit to an earlier state in              *)
(* Absent < Created < Generated < Built.                                   *)
(***************************************************************************)
C7_Monotonic ==
    (DocsCall(last) /\ NoCallRaised(last)) =>
        \A dir \in ProjectDirs : Rank(disk[dir]) >= Rank(last.before[dir])

C7_Witness ==
    /\ DocsCall(last) /\ Verb(last) = "generate"
    /\ Category(Package(last)) = "CustomPackage"
    /\ last.before[UnitDir(Package(last))] = "Built"
    /\ Len(Calls(last)) = 1 /\ NoCallRaised(last)
    /\ disk[UnitDir(Package(last))] = "Built"

(***************************************************************************)
(* C8: after any sequence of register / unregister calls names() is in     *)
(* strictly increasing lexicographic order (sorted, no duplicates) and     *)
(* lists exactly the names registered and not removed, a name registered   *)
(* more than once appearing once.                                          *)
(***************************************************************************)
C8_NamesSortedExact ==
    /\ IsSorted(names(registry))
    /\ Range(names(registry)) = {e[1] : e \in registered}
    /\ Len(names(registry)) = Cardinality({e[1] : e \in registered})

C8_Witness ==
    /\ last.kind = "register" /\ last.cmd = "list"
    /\ Has(last.entries, "list")
    /\ prev.kind = "register" /\ prev.cmd = "ping"
    /\ Keys(registry) # names(registry)
    /\ Len(names(registry)) = Len(CoreRegistrations) + 1

(***************************************************************************)
(* C9: a handler that raises does not raise out of dispatch: the call      *)
(* returns, exactly one report is emitted, the generic internal error, the *)
(* registry keeps its names and handlers, and the dispatch that follows is *)
(* served.                                                                 *)
(***************************************************************************)
HandlerRaised(l) == l.kind = "dispatch" /\ l.raised

C9_HandlerErrorAbsorbed ==
    /\ HandlerRaised(last) =>
           /\ ~last.propagated
           /\ Logs(last) = <<Log(InternalError, last.cmd)>>
           /\ registry = last.entries
    /\ (prev.kind = "dispatch" /\ prev.raised /\ last.kind = "dispatch") =>
           /\ ~last.propagated
           /\ last.cmd = "version" =>
                  last.events =
                      <<Log("Current Source.Python version: {0}", VERSION)>>

C9_Witness ==
    /\ prev.kind = "dispatch" /\ prev.raised
    /\ prev.cmd = "delay" /\ prev.args = <<"soon">>
    /\ prev.final = InternalError
    /\ last.kind = "dispatch" /\ last.cmd = "version"
    /\ Len(Logs(last)) = 1

(***************************************************************************)
(* C10: dispatching an empty or unregistered command name raises nothing,  *)
(* invokes no handler and reports the registry's prefix with the sorted    *)
(* list of the registered names; the registry is unchanged.                *)
(***************************************************************************)
UnknownName(l) ==
    /\ l.kind = "dispatch"
    /\ l.cmd = "" \/ l.cmd \notin {e[1] : e \in registered}

C10_UnknownCommandReported ==
    UnknownName(last) =>
        /\ ~last.raised
        /\ ~last.propagated
        /\ last.invoked = <<>>
        /\ Len(last.events) = 1
        /\ last.events[1].op = "log"
        /\ last.events[1].arg = Prefix
        /\ IsSorted(last.events[1].items)
        /\ Range(last.events[1].items) = {e[1] : e \in registered}
        /\ registry = last.entries
        /\ disk = last.before

C10_Witness ==
    /\ UnknownName(last)
    /\ last.cmd = "list"
    /\ prev.kind = "unregister" /\ prev.cmd = "list"
    /\ Len(last.events[1].items) = Len(CoreRegistrations) - 1

(***************************************************************************)
(* C11: every dispatch call emits at least one report before it returns,   *)
(* whatever the command name and the argument tokens, a successful delay   *)
(* and failing handlers included.                                          *)
(***************************************************************************)
C11_EveryDispatchReports ==
    last.kind = "dispatch" => Len(Logs(last)) >= 1

(***************************************************************************)
(* C12: create on an Absent unit works on the project of the resolved      *)
(* category's own path pair: (plugin root / package, plugin docs /         *)
(* package) for a plugin, the custom-package pair for a custom package,    *)
(* the core pair for the core identifier.  The create capability is        *)
(* invoked once on that pair, "has been created" is reported and no other  *)
(* category's project is probed, called or changed.                        *)
(***************************************************************************)
SourceRoot(category) ==
    CASE category = "CoreTree" -> "SP_PACKAGES_PATH"
      [] category = "CustomPackage" -> "CUSTOM_PACKAGES_PATH"
      [] category = "Plugin" -> "PLUGIN_PATH"

OutputRoot(category) ==
    CASE category = "CoreTree" -> "SP_DOCS_PATH"
      [] category = "CustomPackage" -> "CUSTOM_PACKAGES_DOCS_PATH"
      [] category = "Plugin" -> "PLUGIN_DOCS_PATH"

CreatedText(category) ==
    CASE category = "CoreTree" ->
             "Sphinx project has been created for Source.Python."
      [] category = "CustomPackage" ->
             "Sphinx project has been created for custom package \"{0}\"."
      [] category = "Plugin" ->
             "Sphinx project has been created for plugin \"{0}\"."

OnPair(e, category, p) ==
    /\ e.src = <<SourceRoot(category), Named(p)>>
    /\ e.out = <<OutputRoot(category), Named(p)>>

C12_CreateOnOwnPaths ==
    FirstCreate(last) =>
        LET p == Package(last)
            c == Category(p)
        IN  /\ Len(Calls(last)) = 1
            /\ Calls(last)[1].op = "create"
            /\ OnPair(Calls(last)[1], c, p)
            /\ \A i \in 1..Len(Probes(last)) : OnPair(Probes(last)[i], c, p)
            /\ Logs(last) = <<Log(CreatedText(c), Named(p))>>
            /\ \A dir \in ProjectDirs :
                   dir # <<OutputRoot(c), Named(p)>> =>
                       disk[dir] = last.before[dir]

C12_Witness ==
    /\ FirstCreate(last)
    /\ Package(last) = "pkg" /\ Category("pkg") = "Plugin"
    /\ Calls(last)[1].src = <<"PLUGIN_PATH", "pkg">>
    /\ Calls(last)[1].out = <<"PLUGIN_DOCS_PATH", "pkg">>
    /\ disk[<<"PLUGIN_DOCS_PATH", "pkg">>] = "Created"

(***************************************************************************)
(* C13: from an Absent unit of any category, create then generate then     *)
(* build, with nothing failing and no external modification in between,    *)
(* ends in Built: the create, generate and build capabilities are invoked  *)
(* once each, in that order, and each call reports its confirmation.       *)
(***************************************************************************)
GeneratedTexts ==
    {"Project files have been generated for Source.Python.",
     "Project files have been generated for custom package \"{0}\".",
     "Project files have been generated for plugin \"{0}\"."}
BuiltTexts ==
    {"Project files have been built for Source.Python.",
     "Project files have been built for custom package \"{0}\".",
     "Project files have been built for plugin \"{0}\"."}

\* The call invoked the capability op once, on the package's unit, and
\* logged one message, out of texts.
OneStep(l, op, texts) ==
    /\ Len(Calls(l)) = 1
    /\ Calls(l)[1].op = op
    /\ Calls(l)[1].out = UnitDir(Package(l))
    /\ Len(Logs(l)) = 1
    /\ Logs(l)[1].text \in texts
    /\ Logs(l)[1].arg = Named(Package(l))

C13_CreateGenerateBuild ==
    /\ last.run = 1 =>
           /\ OneStep(last, "create", CreatedTexts)
           /\ disk[UnitDir(Package(last))] = "Created"
    /\ last.run = 2 =>
           /\ OneStep(last, "generate_project_files", GeneratedTexts)
           /\ Len(prev.calls) = 1 /\ prev.calls[1].op = "create"
           /\ disk[UnitDir(Package(last))] = "Generated"
    /\ last.run = 3 =>
           /\ OneStep(last, "build", BuiltTexts)
           /\ Len(prev.calls) = 1
           /\ prev.calls[1].op = "generate_project_files"
           /\ disk[UnitDir(Package(last))] = "Built"

C13_Witness ==
    /\ last.run = 3
    /\ Category(Package(last)) = "CoreTree"
    /\ disk[<<"SP_DOCS_PATH", "">>] = "Built"
    /\ Calls(last)[1].op = "build"
    /\ prev.final \in GeneratedTexts

(***************************************************************************)
(* C14: what a lifecycle verb reports and which capability it calls is a   *)
(* function of the verb, the package and the disk as found at the call     *)
(* (and of whether the capability then fails), never of earlier verbs.  In *)
(* particular a create that follows a successful create and a deletion of  *)
(* the project from outside calls the create capability again and does not *)
(* report that the project already exists.                                 *)
(***************************************************************************)
ExistsText(category) ==
    CASE category = "CoreTree" ->
             "Sphinx project already exists for Source.Python"
      [] category = "CustomPackage" ->
             "Sphinx project already exists for custom package \"{0}\"."
      [] category = "Plugin" ->
             "Sphinx project already exists for plugin \"{0}\"."

MissingText(category) ==
    CASE category = "CoreTree" ->
             "Sphinx project does not exist for Source.Python."
      [] category = "CustomPackage" ->
             "Sphinx project does not exist for custom package \"{0}\"."
      [] category = "Plugin" ->
             "Sphinx project does not exist for plugin \"{0}\"."

SuccessText(verb, category) ==
    CASE verb = "create" -> CreatedText(category)
      [] verb = "generate" /\ category = "CoreTree" ->
             "Project files have been generated for Source.Python."
      [] verb = "generate" /\ category = "CustomPackage" ->
             "Project files have been generated for custom package \"{0}\"."
      [] verb = "generate" /\ category = "Plugin" ->
             "Project files have been generated for plugin \"{0}\"."
      [] verb = "build" /\ category = "CoreTree" ->
             "Project files have been built for Source.Python."
      [] verb = "build" /\ category = "CustomPackage" ->
             "Project files have been built for custom package \"{0}\"."
      [] verb = "build" /\ category = "Plugin" ->
             "Project files have been built for plugin \"{0}\"."

FailureText(verb, category) ==
    CASE verb = "create" /\ category = "CoreTree" ->
             "An occured while creating Sphinx project for Source.Python."
      [] verb = "create" /\ category = "CustomPackage" ->
             "An error occured while creating Sphinx project for custom package \"{0}\"."
      [] verb = "create" /\ category = "Plugin" ->
             "An error occured while creating Sphinx project for plugin \"{0}\"."
      [] verb = "generate" /\ category = "CoreTree" ->
             "An error occured while generating project files for Source.Python"
      [] verb = "generate" /\ category = "CustomPackage" ->
             "An error occured while generating project files for custom package \"{0}\"."
      [] verb = "generate" /\ category = "Plugin" ->
             "An error occured while generating project files for plugin \"{0}\"."
      [] verb = "build" /\ category = "CoreTree" ->
             "An error occured while building project files for Source.Python."
      [] verb = "build" /\ category = "CustomPackage" ->
             "An error occured while building project files for custom package \"{0}\"."
      [] verb = "build" /\ category = "Plugin" ->
             "An error occured while building project files for plugin \"{0}\"."

CapabilityOf(verb) ==
    CASE verb = "create" -> "create"
      [] verb = "generate" -> "generate_project_files"
      [] verb = "build" -> "build"

\* The verb acts on what it finds: create on an absent project, generate
\* and build on an existing one.
Applies(verb, state) == (verb = "create") = (state = "Absent")

\* The one message a returning call logs, given the verb, the category, the
\* state found on disk and whether the capability call, if made, failed.
ReportFor(verb, category, state, failed) ==
    IF ~Applies(verb, state)
    THEN IF verb = "create" THEN ExistsText(category)
         ELSE MissingText(category)
    ELSE IF failed THEN FailureText(verb, category)
    ELSE SuccessText(verb, category)

AfterCreateAndDelete ==
    /\ DocsCall(last) /\ Verb(last) = "create"
    /\ Category(Package(last)) \in Categories
    /\ prev.kind = "external" /\ prev.undone >= 1
    /\ prev.args = UnitDir(Package(last))

C14_OutcomeFromDisk ==
    /\ (/\ DocsCall(last) /\ Verb(last) \in Actions
        /\ Category(Package(last)) \in Categories
        /\ ~last.raised) =>
           LET p == Package(last)
               c == Category(p)
               found == last.before[UnitDir(p)]
           IN  /\ Len(Calls(last)) = IF Applies(Verb(last), found) THEN 1 ELSE 0
               /\ \A i \in 1..Len(Calls(last)) :
                      /\ Calls(last)[i].op = CapabilityOf(Verb(last))
                      /\ OnPair(Calls(last)[i], c, p)
               /\ Logs(last) =
                      <<Log(ReportFor(Verb(last), c, found, ~NoCallRaised(last)),
                            Named(p))>>
    /\ AfterCreateAndDelete =>
           /\ Len(Calls(last)) = 1
           /\ Calls(last)[1].op = "create"
           /\ \A i \in 1..Len(Logs(last)) : Logs(last)[i].text \notin ExistsTexts

C14_Witness ==
    /\ AfterCreateAndDelete
    /\ prev.args = <<"SP_DOCS_PATH", "">>
    /\ Calls(last)[1].text = "returned"
    /\ Logs(last)[1].text = CreatedText("CoreTree")
    /\ disk[<<"SP_DOCS_PATH", "">>] = "Created"

(***************************************************************************)
(* C15: registration is silent last-write-wins.  Registering a name that   *)
(* is already registered reports nothing and raises nothing, leaves every  *)
(* other name with the handler it had, and from then on a dispatch of the  *)
(* name invokes the handler registered last, once, and no other.           *)
(***************************************************************************)
Overwrite(l) == l.kind = "register" /\ Has(l.entries, l.cmd)

LastRegistered(name) == CHOOSE h \in {e[2] : e \in registered} :
                            <<name, h>> \in registered

C15_LastWriteWins ==
    /\ Overwrite(last) =>
           /\ last.events = <<>> /\ ~last.raised /\ ~last.propagated
           /\ Len(registry) = Len(last.entries)
           /\ \A i \in 1..Len(last.entries) :
                  LET m == last.entries[i].name
                  IN  /\ Has(registry, m)
                      /\ m # last.cmd =>
                             lookup(registry, m) = lookup(last.entries, m)
    /\ \A n \in {e[1] : e \in registered} :
           /\ Cardinality({e \in registered : e[1] = n}) = 1
           /\ Has(registry, n)
           /\ lookup(registry, n) = LastRegistered(n)
    /\ (last.kind = "dispatch" /\ Has(last.entries, last.cmd)) =>
           last.invoked = <<LastRegistered(last.cmd)>>

C15_Witness ==
    /\ last.kind = "dispatch" /\ last.cmd = "list"
    /\ last.invoked = <<"print_version">>
    /\ last.events = <<Log("Current Source.Python version: {0}", VERSION)>>
    /\ prev.kind = "register" /\ prev.cmd = "list"
    /\ <<"list", "print_plugins">> \notin registered
    /\ lookup(registry, "docs") = "docs_handler"

(***************************************************************************)
(* C16: the delay handler validates its own arguments: invoked with no     *)
(* tokens, or with a first token that is no number, it reports an argument *)
(* error of its own, schedules nothing with the tick scheduler and does    *)
(* not raise.                                                              *)
(***************************************************************************)
BadDelay(l) ==
    /\ l.kind = "dispatch"
    /\ l.invoked = <<"delay_execution">>
    /\ (Len(l.args) = 0 \/ l.args[1] \notin Numeric)

Scheduled(l) ==
    SelectSeq(l.events, LAMBDA e : e.op = "tick_delays.delay")

C16_DelayValidates ==
    BadDelay(last) =>
        /\ ~last.raised
        /\ Scheduled(last) = <<>>
        /\ \E i \in 1..Len(Logs(last)) : Logs(last)[i].text # InternalError

(***************************************************************************)
(* C17: the list report names the loaded plugins in lexicographic order,   *)
(* each exactly once, whatever the order they were loaded in (alpha, zulu, *)
(* mu are listed as alpha, mu, zulu), between a separator rule of 61       *)
(* characters after the title and a closing rule of 61 characters.         *)
(***************************************************************************)
ListCall(l) ==
    /\ l.kind = "dispatch"
    /\ l.invoked = <<"print_plugins">>
    /\ ~l.raised

IsEntry(line) == \E n \in PluginNames : line \in {n, n \o ":"}
EntryName(line) == CHOOSE n \in PluginNames : line \in {n, n \o ":"}

\* The plugin names of a report, in the order of its lines.
Listed(lines) ==
    LET entries == SelectSeq(lines, IsEntry)
    IN  [i \in 1..Len(entries) |-> EntryName(entries[i])]

IsRule(line) ==
    /\ Len(line) = 61
    /\ line = Repeat("=", 61)

C17_ListSortedFramed ==
    ListCall(last) =>
        /\ Len(Logs(last)) = 1
        /\ LET lines == Logs(last)[1].items
               body == SubSeq(lines, 4, Len(lines) - 1)
           IN  /\ Len(lines) >= 4
               /\ lines[1] = Prefix \o "Plugins"
               /\ IsRule(lines[2])
               /\ lines[3] = ""
               /\ IsRule(lines[Len(lines)])
               /\ \A i \in 1..Len(body) : ~IsRule(body[i])
               /\ IsSorted(Listed(body))
               /\ Range(Listed(body)) = Range(manager)
               /\ Len(Listed(body)) = Len(manager)

C17_Witness ==
    /\ ListCall(last)
    /\ manager = <<"alpha", "zulu", "mu">>
    /\ Listed(Logs(last)[1].items) = <<"alpha", "mu", "zulu">>
    /\ Len(Logs(last)[1].items[2]) = 61

(***************************************************************************)
(* C18: a CoreTree build on an existing project rewrites the version and   *)
(* release lines of conf.py strictly before it invokes the build           *)
(* capability, on every such invocation, and does not undo the rewrite     *)
(* when the build fails: the failure is reported and nothing else follows. *)
(* CustomPackage and Plugin builds rewrite no configuration file.          *)
(***************************************************************************)
BuildOn(l, category) ==
    /\ DocsCall(l) /\ Verb(l) = "build"
    /\ Category(Package(l)) = category
    /\ l.before[UnitDir(Package(l))] # "Absent"

\* The positions in the events of l of the events of kind op.
Positions(l, op) == {i \in 1..Len(l.events) : l.events[i].op = op}

ConfRewrite(e) ==
    /\ e.op = "rewrite" /\ e.text = "conf.py" /\ e.arg = VERSION
    /\ e.out = <<"SP_DOCS_PATH", "">>

C18_ConfBeforeBuild ==
    /\ BuildOn(last, "CoreTree") =>
           /\ \A i \in Positions(last, "build") :
                  /\ \E j \in Positions(last, "rewrite") :
                         j < i /\ ConfRewrite(last.events[j])
                  /\ last.events[i].text = "raised" =>
                         /\ ~last.raised
                         /\ i + 1 = Len(last.events)
                         /\ last.events[i + 1] =
                                Log(FailureText("build", "CoreTree"), "")
           /\ \A j \in Positions(last, "rewrite") :
                  ConfRewrite(last.events[j])
           /\ Cardinality(Positions(last, "rewrite")) <= 1
           /\ ~last.raised =>
                  /\ Cardinality(Positions(last, "rewrite")) = 1
                  /\ Cardinality(Positions(last, "build")) = 1
           /\ last.raised => Positions(last, "build") = {}
    /\ (BuildOn(last, "CustomPackage") \/ BuildOn(last, "Plugin")) =>
           /\ Positions(last, "rewrite") = {}
           /\ Cardinality(Positions(last, "build")) = 1

C18_Witness ==
    /\ BuildOn(last, "CoreTree")
    /\ Len(last.events) = 4
    /\ ConfRewrite(last.events[2])
    /\ last.events[3].op = "build" /\ last.events[3].text = "raised"
    /\ last.events[4].text = FailureText("build", "CoreTree")

(***************************************************************************)
(* C19: a CoreTree generate strips the literal "source-python." from the   *)
(* description files only after the generate capability has returned and   *)
(* before the confirmation is logged; when the capability fails no         *)
(* description file is rewritten and only the failure is reported.         *)
(* CustomPackage and Plugin generate rewrite no description file.          *)
(***************************************************************************)
GenerateOn(l, category) ==
    /\ DocsCall(l) /\ Verb(l) = "generate"
    /\ Category(Package(l)) = category
    /\ l.before[UnitDir(Package(l))] # "Absent"

RstStrip(e) ==
    /\ e.op = "rewrite" /\ e.text = "*.rst" /\ e.arg = "source-python."
    /\ e.out = <<"SP_DOCS_PATH", "">>

C19_StripAfterGenerate ==
    /\ GenerateOn(last, "CoreTree") =>
           /\ \A j \in Positions(last, "rewrite") :
                  /\ RstStrip(last.events[j])
                  /\ \E i \in Positions(last, "generate_project_files") :
                         i < j /\ last.events[i].text = "returned"
                  /\ \A k \in Positions(last, "log") : j < k
           /\ (\E i \in Positions(last, "generate_project_files") :
                   last.events[i].text = "raised") =>
                  /\ Positions(last, "rewrite") = {}
                  /\ Logs(last) =
                         <<Log(FailureText("generate", "CoreTree"), "")>>
           /\ (\E k \in Positions(last, "log") :
                   last.events[k].text = SuccessText("generate", "CoreTree"))
                  => Cardinality(Positions(last, "rewrite")) = 1
    /\ (GenerateOn(last, "CustomPackage") \/ GenerateOn(last, "Plugin")) =>
           /\ Positions(last, "rewrite") = {}
           /\ Cardinality(Positions(last, "generate_project_files")) = 1

C19_Witness ==
    /\ GenerateOn(last, "CoreTree")
    /\ Len(last.events) = 4
    /\ last.events[2].op = "generate_project_files"
    /\ last.events[2].text = "returned"
    /\ RstStrip(last.events[3])
    /\ last.events[4] = Log(SuccessText("generate", "CoreTree"), "")
    /\ disk[<<"SP_DOCS_PATH", "">>] = "Generated"

(***************************************************************************)
(* C20: every docs_handler(action, package) call that returns logs exactly *)
(* one message, of exactly one of five kinds (usage error, category        *)
(* rejection, state conflict, capability failure, success confirmation),   *)
(* and invokes at most one of the create, generate and build capabilities, *)
(* at most once.                                                           *)
(***************************************************************************)
Kinds == {"usage", "rejection", "conflict", "failure", "success"}

KindTexts(kind) ==
    CASE kind = "usage" -> {InvalidAction}
      [] kind = "rejection" -> {NotAPackage}
      [] kind = "conflict" -> ExistsTexts \cup MissingTexts
      [] kind = "failure" -> FailureTexts
      [] kind = "success" -> SuccessTexts

KindsOf(text) == {k \in Kinds : text \in KindTexts(k)}

Returned(l) == DocsCall(l) /\ ~l.raised

C20_OneDiagnosticOneCall ==
    Returned(last) =>
        /\ Len(Logs(last)) = 1
        /\ Cardinality(KindsOf(Logs(last)[1].text)) = 1
        /\ Len(Calls(last)) <= 1
        /\ LET kind == CHOOSE k \in Kinds : Logs(last)[1].text \in KindTexts(k)
           IN  /\ kind = "usage" <=> Verb(last) \notin Actions
               /\ kind = "rejection" <=>
                      /\ Verb(last) \in Actions
                      /\ Category(Package(last)) = "Rejected"
               /\ kind \in {"usage", "rejection", "conflict"} =>
                      Calls(last) = <<>>
               /\ kind = "failure" <=> SomeCallRaised(last)
               /\ kind = "success" <=>
                      Len(Calls(last)) = 1 /\ NoCallRaised(last)

C20_Witness ==
    /\ Returned(last) /\ Verb(last) = "generate"
    /\ Package(last) = "source-python"
    /\ Len(Calls(last)) = 1 /\ Calls(last)[1].text = "raised"
    /\ KindsOf(Logs(last)[1].text) = {"failure"}
    /\ prev.kind = "dispatch" /\ prev.args = <<"clean", "pkg">>
    /\ KindsOf(prev.final) = {"usage"}

====
